---- MODULE Spec2Model ----
(***************************************************************************)
(* Model of the polling front end of the encoder bot (src/main.py).        *)
(*                                                                         *)
(* The bot registers three handlers in one dispatcher group: /start,       *)
(* /help and a ConversationHandler whose entry point is /encode, whose     *)
(* only state WAITING_FILE accepts video or document messages, and whose   *)
(* fallback is /cancel.  The dispatcher takes one update at a time from    *)
(* its queue and runs the matching callback to completion before it takes  *)
(* the next one.  The "pending set" of the specification is the set of     *)
(* conversation keys whose state is WAITING_FILE.                          *)
(***************************************************************************)
EXTENDS Integers, Sequences, FiniteSets, TLC

\* ---------------------------------------------------------------- bounds
Users == {"u1", "u2"}

MaxQueue == 1

MaxJobs == 2

\* ------------------------------------------------------ program constants
WAITING_FILE == 1

END == -1

None == 0

MB == 1024 * 1024

TruncLen == 1000

\* ------------------------------------------------------------ filenames
\* Names and media types are sequences of one-character strings, so that
\* lower(), endswith() and the substring test are computed, not assumed.
UpperChars == <<"A", "B", "C", "D", "E", "F", "G", "H", "I", "J", "K", "L", "M",
                "N", "O", "P", "Q", "R", "S", "T", "U", "V", "W", "X", "Y", "Z">>

LowerChars == <<"a", "b", "c", "d", "e", "f", "g", "h", "i", "j", "k", "l", "m",
                "n", "o", "p", "q", "r", "s", "t", "u", "v", "w", "x", "y", "z">>

LowerChar(c) ==
  IF \E i \in 1..26 : UpperChars[i] = c
    THEN LowerChars[CHOOSE i \in 1..26 : UpperChars[i] = c]
    ELSE c

lower(name) == [i \in 1..Len(name) |-> LowerChar(name[i])]

endswith(name, ext) ==
  /\ Len(name) >= Len(ext)
  /\ SubSeq(name, Len(name) - Len(ext) + 1, Len(name)) = ext

contains(text, sub) ==
  \E i \in 1..(Len(text) + 1) :
    /\ i + Len(sub) - 1 <= Len(text)
    /\ SubSeq(text, i, i + Len(sub) - 1) = sub

VideoExts ==
  { <<".", "m", "p", "4">>, <<".", "m", "k", "v">>, <<".", "m", "o", "v">>,
    <<".", "a", "v", "i">>, <<".", "w", "e", "b", "m">>, <<".", "t", "s">>,
    <<".", "m", "4", "v">> }

fname_looks_like_video(name) ==
  \E ext \in VideoExts : endswith(lower(name), ext)

\* The documents the model sends.  An absent media type or file name is the
\* empty sequence, which is what "x or ''" yields for None.
Docs ==
  [ mime_video |-> [mime_type |-> <<"v", "i", "d", "e", "o", "/", "m", "p", "4">>,
                    file_name |-> <<>>],
    upper_mkv  |-> [mime_type |-> <<>>,
                    file_name |-> <<"A", ".", "M", "K", "V">>],
    pdf        |-> [mime_type |-> <<"a", "p", "p", "l", "i", "c", "a", "t", "i", "o", "n",
                                    "/", "p", "d", "f">>,
                    file_name |-> <<"m", "p", "4", ".", "p", "d", "f">>],
    no_dot     |-> [mime_type |-> <<>>,
                    file_name |-> <<"m", "k", "v">>] ]

DocIds == DOMAIN Docs

\* Line 95: 'video' in mime or fname_looks_like_video(file_name or '')
DocAccepted(d) ==
  \/ contains(Docs[d].mime_type, <<"v", "i", "d", "e", "o">>)
  \/ fname_looks_like_video(Docs[d].file_name)

\* ---------------------------------------------------------------- state
VARIABLES
  conversations,  \* ConversationHandler.conversations: user -> None | WAITING_FILE
  update_queue,   \* updates received from the transport, not yet dispatched
  jobs,           \* every handle_video run that chose its paths, in order
  files,          \* the scratch directory: <<job, "in">> and <<job, "out">>
  calls,          \* transport and encoder calls made while handling the latest update
  current         \* the latest dispatched update and the callback it reached

vars == <<conversations, update_queue, jobs, files, calls, current>>

CommandKinds == {"start", "help", "encode", "cancel"}

MediaKinds == {"video", "document"}

\* What the dispatcher sees of an update before a callback inspects it.
Updates == [user : Users, kind : CommandKinds \cup {"text"} \cup MediaKinds]

\* A transport call whose exception would leave the enclosing block, with
\* its outcome; and one inside "try ... except Exception: pass" (or the
\* wrapper's own notification), whose outcome changes nothing.
Call(op, text, ok) == [op |-> op, text |-> text, ok |-> ok]

Try(op, text) == [op |-> op, text |-> text]

Pending(u) == conversations[u] = WAITING_FILE

\* EncodeJob.status of the specification: the step the callback is in, or
\* how it ended ("failed" covers every return other than the successful one).
InFlight(j) == jobs[j].status \in {"downloading", "encoding", "uploading"}

in_path(j) == <<j, "in">>

out_path(j) == <<j, "out">>

\* ------------------------------------------------------------ dispatching
\* Variant: callbacks run on worker threads (run_async), so the dispatcher
\* takes the next update while a callback is still running.
CanDispatchAsync == TRUE

\* Dispatcher.start: the next update is taken only after the callback of
\* the previous one has returned (no handler is registered run_async).
CanDispatch == \A j \in DOMAIN jobs : ~InFlight(j)

\* Variant: the media handler registered on the dispatcher itself instead
\* of under the WAITING_FILE state of the conversation.
RouteMediaAlways(state, upd) ==
  IF upd.kind = "start" THEN "start"
  ELSE IF upd.kind = "help" THEN "help_cmd"
  ELSE IF upd.kind = "encode" THEN "encode_command"
  ELSE IF upd.kind \in MediaKinds THEN "handle_video"
  ELSE IF state = None THEN "none"
  ELSE IF upd.kind = "cancel" THEN "cancel"
  ELSE "none"

\* Variant: the WAITING_FILE state takes every message that is no command
\* (Filters.all instead of Filters.video | Filters.document).
RouteAnyMessage(state, upd) ==
  IF upd.kind = "start" THEN "start"
  ELSE IF upd.kind = "help" THEN "help_cmd"
  ELSE IF upd.kind = "encode" THEN "encode_command"
  ELSE IF state = None THEN "none"
  ELSE IF state = WAITING_FILE /\ upd.kind \notin CommandKinds THEN "handle_video"
  ELSE IF upd.kind = "cancel" THEN "cancel"
  ELSE "none"

\* Group 0 holds start, help and the conversation, in that order; the
\* conversation checks its entry points (allow_reentry), then the handlers
\* of the current state, then the fallbacks.
Route(state, upd) ==
  IF upd.kind = "start" THEN "start"
  ELSE IF upd.kind = "help" THEN "help_cmd"
  ELSE IF upd.kind = "encode" THEN "encode_command"
  ELSE IF state = None THEN "none"
  ELSE IF state = WAITING_FILE /\ upd.kind \in MediaKinds THEN "handle_video"
  ELSE IF upd.kind = "cancel" THEN "cancel"
  ELSE "none"

\* The conversation stores what the callback returned: END drops the key,
\* no return value (None) keeps the state, any other value is the new state.
UpdateState(conv, u, new_state) ==
  IF new_state = END THEN [conv EXCEPT ![u] = None]
  ELSE IF new_state = None THEN conv
  ELSE [conv EXCEPT ![u] = new_state]

\* Variant: the wrapper logs the exception and does not notify the user.
send_try_except_silent(made, raised) == made

\* send_try_except: an exception leaving the callback is logged, a generic
\* error reply is attempted, and the wrapper returns nothing.
send_try_except(made, raised) ==
  IF raised
    THEN Append(made, Try("reply_text", "error_generic"))
    ELSE made

Reached(upd, doc, handler) ==
  [user |-> upd.user, kind |-> upd.kind, doc |-> doc, handler |-> handler]

Init ==
  /\ conversations = [u \in Users |-> None]
  /\ update_queue = <<>>
  /\ jobs = <<>>
  /\ files = {}
  /\ calls = <<>>
  /\ current = [user |-> "", kind |-> "", doc |-> "", handler |-> ""]

\* The transport delivers an update (getUpdates polling thread).
Arrive ==
  /\ Len(update_queue) < MaxQueue
  /\ \E upd \in Updates : update_queue' = Append(update_queue, upd)
  /\ UNCHANGED <<conversations, jobs, files, calls, current>>

\* No handler of the group matches: the update is dropped.
ignore_update ==
  /\ CanDispatch
  /\ update_queue # <<>>
  /\ LET upd == Head(update_queue) IN
       /\ Route(conversations[upd.user], upd) = "none"
       /\ current' = Reached(upd, "", "none")
  /\ calls' = <<>>
  /\ update_queue' = Tail(update_queue)
  /\ UNCHANGED <<conversations, jobs, files>>

\* Variant: /start registered inside the conversation and ending it.
start_ends_conversation ==
  /\ CanDispatch
  /\ update_queue # <<>>
  /\ LET upd == Head(update_queue) IN
       /\ Route(conversations[upd.user], upd) = "start"
       /\ current' = Reached(upd, "", "start")
       /\ conversations' = UpdateState(conversations, upd.user, END)
  /\ \E ok \in BOOLEAN :
       calls' = send_try_except(<<Call("reply_text", "welcome", ok)>>, ~ok)
  /\ update_queue' = Tail(update_queue)
  /\ UNCHANGED <<jobs, files>>

start ==
  /\ CanDispatch
  /\ update_queue # <<>>
  /\ LET upd == Head(update_queue) IN
       /\ Route(conversations[upd.user], upd) = "start"
       /\ current' = Reached(upd, "", "start")
  /\ \E ok \in BOOLEAN :
       calls' = send_try_except(<<Call("reply_text", "welcome", ok)>>, ~ok)
  /\ update_queue' = Tail(update_queue)
  /\ UNCHANGED <<conversations, jobs, files>>

help_cmd ==
  /\ CanDispatch
  /\ update_queue # <<>>
  /\ LET upd == Head(update_queue) IN
       /\ Route(conversations[upd.user], upd) = "help_cmd"
       /\ current' = Reached(upd, "", "help_cmd")
  /\ \E ok \in BOOLEAN :
       calls' = send_try_except(<<Call("reply_text", "usage", ok)>>, ~ok)
  /\ update_queue' = Tail(update_queue)
  /\ UNCHANGED <<conversations, jobs, files>>

encode_command ==
  /\ CanDispatch
  /\ update_queue # <<>>
  /\ LET upd == Head(update_queue) IN
       /\ Route(conversations[upd.user], upd) = "encode_command"
       /\ current' = Reached(upd, "", "encode_command")
       /\ \E ok \in BOOLEAN :
            /\ calls' = send_try_except(<<Call("reply_text", "prompt", ok)>>, ~ok)
            /\ conversations' =
                 UpdateState(conversations, upd.user, IF ok THEN WAITING_FILE ELSE None)
  /\ update_queue' = Tail(update_queue)
  /\ UNCHANGED <<jobs, files>>

\* Variant: a cancel that also clears the scratch directory and marks the
\* jobs of the user as failed.
cancel_and_abort ==
  /\ CanDispatch
  /\ update_queue # <<>>
  /\ LET upd == Head(update_queue) IN
       /\ Route(conversations[upd.user], upd) = "cancel"
       /\ current' = Reached(upd, "", "cancel")
       /\ calls' = <<Call("reply_text", "cancelled", TRUE)>>
       /\ conversations' = UpdateState(conversations, upd.user, END)
       /\ jobs' = [j \in DOMAIN jobs |->
                    IF jobs[j].user = upd.user
                      THEN [jobs[j] EXCEPT !.status = "failed"] ELSE jobs[j]]
       /\ files' = {f \in files : jobs[f[1]].user # upd.user}
  /\ update_queue' = Tail(update_queue)

cancel ==
  /\ CanDispatch
  /\ update_queue # <<>>
  /\ LET upd == Head(update_queue) IN
       /\ Route(conversations[upd.user], upd) = "cancel"
       /\ current' = Reached(upd, "", "cancel")
       /\ \E ok \in BOOLEAN :
            /\ calls' = send_try_except(<<Call("reply_text", "cancelled", ok)>>, ~ok)
            /\ conversations' = UpdateState(conversations, upd.user, IF ok THEN END ELSE None)
  /\ update_queue' = Tail(update_queue)
  /\ UNCHANGED <<jobs, files>>

\* ------------------------------------------------------------ handle_video
\* size_mb > 49.5 with size_mb = bytes / (1024*1024)
Oversize(bytes) == 2 * bytes > 99 * MB

Sizes == {10 * MB, (99 * MB) \div 2, ((99 * MB) \div 2) + 1, 60 * MB}

Finish(j, outcome) == [jobs EXCEPT ![j].status = outcome]

\* Lines 83-109: validation, get_file, the two paths, the first status reply.
\* doc is the attachment the callback finds in the message.
handle_video ==
  /\ CanDispatch
  /\ update_queue # <<>>
  /\ LET upd == Head(update_queue)
         u == upd.user
     IN
       /\ Route(conversations[u], upd) = "handle_video"
       /\ \E doc \in (IF upd.kind = "document" THEN DocIds ELSE {""}) :
            LET accepted == IF upd.kind = "video" THEN TRUE
                            ELSE IF upd.kind = "document" THEN DocAccepted(doc)
                            ELSE FALSE
            IN
              /\ current' = Reached(upd, doc, "handle_video")
              /\ IF upd.kind \notin MediaKinds
                   THEN \* lines 100-102: neither msg.video nor msg.document
                        /\ \E ok \in BOOLEAN :
                             /\ calls' = send_try_except(
                                           <<Call("reply_text", "no_video", ok)>>, ~ok)
                             /\ conversations' =
                                  UpdateState(conversations, u, IF ok THEN END ELSE None)
                        /\ UNCHANGED <<jobs, files>>
                   ELSE
                 \/ \* lines 95-97: the document is not a video
                    /\ ~accepted
                    /\ \E ok \in BOOLEAN :
                         /\ calls' = send_try_except(
                                       <<Call("reply_text", "not_a_video", ok)>>, ~ok)
                         /\ conversations' =
                              UpdateState(conversations, u, IF ok THEN END ELSE None)
                    /\ UNCHANGED <<jobs, files>>
                 \/ \* lines 90, 98: get_file raises before any path is chosen
                    /\ accepted
                    /\ calls' = send_try_except(<<Call("get_file", "", FALSE)>>, TRUE)
                    /\ conversations' = UpdateState(conversations, u, None)
                    /\ UNCHANGED <<jobs, files>>
                 \/ \* lines 104-109: paths chosen, "Downloading" reply
                    /\ accepted
                    /\ Len(jobs) < MaxJobs
                    /\ \E ok \in BOOLEAN :
                         /\ calls' = send_try_except(
                                       <<Call("get_file", "", TRUE),
                                         Call("reply_text", "downloading", ok)>>, ~ok)
                         /\ jobs' = Append(jobs,
                                      [user |-> u,
                                       status |-> IF ok THEN "downloading" ELSE "failed"])
                    /\ conversations' = UpdateState(conversations, u, None)
                    /\ UNCHANGED files
  /\ update_queue' = Tail(update_queue)

\* Variant: the except block of the download does not return.
download_ignored(downloaded) == "encoding"

\* Lines 110-121: the callback goes on only when download() did not raise.
after_download(downloaded) == IF downloaded THEN "encoding" ELSE "failed"

\* Lines 110-130: the download, then the "Encoding started" edit.
download(j) ==
  /\ j \in DOMAIN jobs
  /\ jobs[j].status = "downloading"
  /\ LET u == jobs[j].user IN
       \E downloaded \in BOOLEAN, ok \in BOOLEAN :
         IF after_download(downloaded) = "failed"
           THEN \* lines 112-121: the download raises, with or without a partial file
                /\ files' = files \ {in_path(j)}
                /\ calls' = calls \o <<Call("download", "", downloaded),
                                       Try("edit_text", "download_failed")>>
                /\ jobs' = Finish(j, "failed")
                /\ conversations' = UpdateState(conversations, u, END)
           ELSE \* line 130: the edit is not guarded
                /\ files' = files \cup (IF downloaded THEN {in_path(j)} ELSE {})
                /\ calls' = send_try_except(
                              calls \o <<Call("download", "", downloaded),
                                         Call("edit_text", "encoding_started", ok)>>, ~ok)
                /\ jobs' = IF ok THEN [jobs EXCEPT ![j].status = "encoding"]
                                 ELSE Finish(j, "failed")
                /\ conversations' = UpdateState(conversations, u, None)
  /\ UNCHANGED <<update_queue, current>>

\* ------------------------------------------------------ diagnostic text
\* The encoder's stderr is a sequence of runs <<character, count>>, so that
\* a text longer than 1000 characters stays small and is still sliced
\* character by character.
RECURSIVE RunsLen(_), Prefix(_, _), Suffix(_, _)

RunsLen(runs) ==
  IF runs = <<>> THEN 0 ELSE runs[1][2] + RunsLen(Tail(runs))

\* text[:n]
Prefix(runs, n) ==
  IF n <= 0 \/ runs = <<>> THEN <<>>
  ELSE IF runs[1][2] >= n THEN << <<runs[1][1], n>> >>
  ELSE <<runs[1]>> \o Prefix(Tail(runs), n - runs[1][2])

\* text[-n:]
Suffix(runs, n) ==
  IF n <= 0 \/ runs = <<>> THEN <<>>
  ELSE LET k == Len(runs)
           last == runs[k]
       IN IF last[2] >= n THEN << <<last[1], n>> >>
          ELSE Suffix(SubSeq(runs, 1, k - 1), n - last[2]) \o <<last>>

NoErrorDetails ==
  << <<"N", 1>>, <<"o", 1>>, <<" ", 1>>, <<"e", 1>>, <<"r", 2>>, <<"o", 1>>, <<"r", 1>>,
     <<" ", 1>>, <<"d", 1>>, <<"e", 1>>, <<"t", 1>>, <<"a", 1>>, <<"i", 1>>, <<"l", 1>>,
     <<"s", 1>> >>

\* Variant: the tail of the diagnostic text instead of its head.
shortened_tail(stderr) ==
  IF Suffix(stderr, TruncLen) = <<>> THEN NoErrorDetails ELSE Suffix(stderr, TruncLen)

\* Line 140: stderr[:1000] or "No error details"
shortened(stderr) ==
  IF Prefix(stderr, TruncLen) = <<>> THEN NoErrorDetails ELSE Prefix(stderr, TruncLen)

\* Empty, short, and one character over the limit with a distinct ending.
StderrTexts ==
  { <<>>,
    << <<"e", 5>> >>,
    << <<"a", 1>>, <<"b", TruncLen>> >> }

\* What subprocess.run did, and what os.path.getsize returned.
Ran(result) == [op |-> "subprocess.run", text |-> result]

RanNonZero(stderr) == [op |-> "subprocess.run", text |-> "nonzero", stderr |-> stderr]

RanZero(wrote) == [op |-> "subprocess.run", text |-> "zero", wrote |-> wrote]

GotSize(bytes) == [op |-> "getsize", text |-> "", size |-> bytes]

Reply(text, body) == [op |-> "reply_text", text |-> text, body |-> body]

\* Variant: the input file is left behind when the encode fails.
keep_input(j, disk) == disk

\* Lines 145-146, 154-155, 163-164, 173-174
remove_input(j, disk) == disk \ {in_path(j)}

\* Variant: the existence check of the output is skipped.
output_assumed(j, disk) == TRUE

\* Line 168
output_exists(j, disk) == out_path(j) \in disk

\* Lines 131-189: the encoder run, the output check, the size check.
\* wrote: whether the encoder left a file at out_path before it stopped.
encode(j) ==
  /\ j \in DOMAIN jobs
  /\ jobs[j].status = "encoding"
  /\ LET u == jobs[j].user
         written(wrote) == IF wrote THEN {out_path(j)} ELSE {}
     IN
       \/ \* lines 135-147: non-zero exit; the reply follows the edit in one try
          \E wrote \in BOOLEAN, ok \in BOOLEAN, stderr \in StderrTexts :
            /\ files' = remove_input(j, files \cup written(wrote))
            /\ calls' = calls \o
                 (IF ok THEN <<RanNonZero(stderr),
                               Call("edit_text", "encoding_failed", TRUE),
                               Reply("ffmpeg_error", shortened(stderr))>>
                        ELSE <<RanNonZero(stderr),
                               Call("edit_text", "encoding_failed", FALSE)>>)
            /\ jobs' = Finish(j, "failed")
            /\ conversations' = UpdateState(conversations, u, END)
       \/ \* lines 149-156: the run exceeds 60*60 seconds
          \E wrote \in BOOLEAN :
            /\ files' = remove_input(j, files \cup written(wrote))
            /\ calls' = calls \o <<Ran("timeout"), Try("edit_text", "timed_out")>>
            /\ jobs' = Finish(j, "failed")
            /\ conversations' = UpdateState(conversations, u, END)
       \/ \* lines 157-165: any other exception of subprocess.run
          \E wrote \in BOOLEAN :
            /\ files' = remove_input(j, files \cup written(wrote))
            /\ calls' = calls \o <<Ran("error"), Try("edit_text", "unexpected_error")>>
            /\ jobs' = Finish(j, "failed")
            /\ conversations' = UpdateState(conversations, u, END)
       \/ \* exit code zero
          \E wrote \in BOOLEAN, size \in Sizes, ok \in BOOLEAN :
            LET disk == files \cup written(wrote) IN
              IF ~output_exists(j, disk)
                THEN \* lines 168-175: no output file
                     /\ files' = remove_input(j, disk)
                     /\ calls' = calls \o <<RanZero(wrote),
                                            Try("edit_text", "output_missing")>>
                     /\ jobs' = Finish(j, "failed")
                     /\ conversations' = UpdateState(conversations, u, END)
                ELSE IF Oversize(size)
                THEN \* lines 178-187: output above the ceiling, guarded warning
                     /\ files' = disk
                     /\ calls' = calls \o <<RanZero(wrote), GotSize(size),
                                            Try("edit_text", "oversize_warning")>>
                     /\ jobs' = [jobs EXCEPT ![j].status = "uploading"]
                     /\ conversations' = UpdateState(conversations, u, None)
                ELSE IF ok
                THEN \* lines 188-189: output within the ceiling
                     /\ files' = disk
                     /\ calls' = calls \o <<RanZero(wrote), GotSize(size),
                                            Call("edit_text", "uploading", TRUE)>>
                     /\ jobs' = [jobs EXCEPT ![j].status = "uploading"]
                     /\ conversations' = UpdateState(conversations, u, None)
                ELSE \* lines 193-208: the "Uploading" edit raises inside the try
                     /\ files' = disk \ {in_path(j), out_path(j)}
                     /\ calls' = calls \o <<RanZero(wrote), GotSize(size),
                                            Call("edit_text", "uploading", FALSE),
                                            Try("edit_text", "upload_failed")>>
                     /\ jobs' = Finish(j, "failed")
                     /\ conversations' = UpdateState(conversations, u, END)
  /\ UNCHANGED <<update_queue, current>>

\* Lines 190-208: the upload, the "Done" edit, the finally block.
upload(j) ==
  /\ j \in DOMAIN jobs
  /\ jobs[j].status = "uploading"
  /\ LET u == jobs[j].user IN
       /\ \/ \* the document is sent; the "Done" edit may still raise
             \E ok \in BOOLEAN :
               /\ calls' = calls \o
                    (IF ok THEN <<Call("reply_document", "encoded", TRUE),
                                  Call("edit_text", "done", TRUE)>>
                           ELSE <<Call("reply_document", "encoded", TRUE),
                                  Call("edit_text", "done", FALSE),
                                  Try("edit_text", "upload_failed")>>)
               /\ jobs' = Finish(j, IF ok THEN "done" ELSE "failed")
          \/ \* reply_document raises
             /\ calls' = calls \o <<Call("reply_document", "encoded", FALSE),
                                    Try("edit_text", "upload_failed")>>
             /\ jobs' = Finish(j, "failed")
       /\ files' = files \ {in_path(j), out_path(j)}
       /\ conversations' = UpdateState(conversations, u, END)
  /\ UNCHANGED <<update_queue, current>>

Next ==
  \/ Arrive
  \/ ignore_update
  \/ start
  \/ help_cmd
  \/ encode_command
  \/ cancel
  \/ handle_video
  \/ \E j \in 1..MaxJobs : download(j)
  \/ \E j \in 1..MaxJobs : encode(j)
  \/ \E j \in 1..MaxJobs : upload(j)

Spec == Init /\ [][Next]_vars

\* ------------------------------------------------------------------ claims
Dispatching == update_queue # <<>> /\ update_queue' = Tail(update_queue)

Returned(j) == j \in DOMAIN jobs /\ ~InFlight(j)

\* C1: once the handler of a job has returned, neither the input file nor
\* the output file of that job is in the scratch directory.
C1_NoFilesAfterReturn ==
  \A j \in DOMAIN jobs :
    Returned(j) => in_path(j) \notin files /\ out_path(j) \notin files

\* C2: in every reachable state each user has at most one job that is
\* downloading, encoding or uploading.
C2_OneActiveJobPerUser ==
  \A u \in Users :
    Cardinality({j \in DOMAIN jobs : jobs[j].user = u /\ InFlight(j)}) <= 1

\* A job is encoding, its user is still marked WAITING_FILE, and a second
\* media message of the same user is already waiting in the queue.
C2_Witness ==
  \E j \in DOMAIN jobs :
    /\ jobs[j].status = "encoding"
    /\ Pending(jobs[j].user)
    /\ update_queue # <<>>
    /\ Head(update_queue).user = jobs[j].user
    /\ Head(update_queue).kind \in MediaKinds

\* C3: a video or document message from a user who is not pending starts no
\* job and makes no transport call at all.
C3_UnsolicitedMediaIgnored ==
  [][ ( /\ Dispatching
        /\ Head(update_queue).kind \in MediaKinds
        /\ ~Pending(Head(update_queue).user) )
      => ( /\ calls' = <<>>
           /\ jobs' = jobs
           /\ files' = files
           /\ conversations' = conversations
           /\ current'.handler = "none" ) ]_vars

\* The latest update was a media message of a user whose request had been
\* consumed by an earlier job, and it reached no callback.
C3_Witness ==
  /\ current.kind \in MediaKinds
  /\ current.handler = "none"
  /\ calls = <<>>
  /\ ~Pending(current.user)
  /\ \E j \in DOMAIN jobs : jobs[j].user = current.user /\ Returned(j)

\* C4: a document that is not a video, sent by a pending user, gets exactly
\* one rejection reply, starts no download, encode or upload, and removes
\* the user from the pending set.
C4_RejectedDocumentConsumesRequest ==
  [][ ( /\ Dispatching
        /\ Head(update_queue).kind = "document"
        /\ Pending(Head(update_queue).user)
        /\ current'.doc \in DocIds
        /\ ~DocAccepted(current'.doc) )
      => ( /\ calls' = <<Call("reply_text", "not_a_video", TRUE)>>
           /\ jobs' = jobs
           /\ files' = files
           /\ ~(conversations'[Head(update_queue).user] = WAITING_FILE) ) ]_vars

\* C5: in every state where a job is downloading, encoding or uploading,
\* its user is not in the pending set.
C5_NotPendingWhileActive ==
  \A j \in DOMAIN jobs : InFlight(j) => ~Pending(jobs[j].user)

\* C6: when a job ends with an error, its user is not in the pending set.
C6_ErrorConsumesRequest ==
  [][ \A j \in DOMAIN jobs' :
        ( /\ jobs'[j].status = "failed"
          /\ (j \notin DOMAIN jobs \/ InFlight(j)) )
        => ~(conversations'[jobs'[j].user] = WAITING_FILE) ]_vars

\* C7: a cancel command leaves its user out of the pending set and is
\* answered with the confirmation, whether or not the user was pending.
C7_CancelAlwaysConfirmed ==
  [][ ( /\ Dispatching
        /\ Head(update_queue).kind = "cancel" )
      => ( /\ calls' = <<Call("reply_text", "cancelled", TRUE)>>
           /\ ~(conversations'[Head(update_queue).user] = WAITING_FILE) ) ]_vars

\* C8: /encode from a user who is already pending sends the prompt and
\* leaves the pending set as it was; and after a file of a user has started
\* a job, the next media message of that user, with no /encode in between,
\* is ignored.
C8_BeginIdempotentOneJob ==
  [][ /\ ( ( /\ Dispatching
             /\ Head(update_queue).kind = "encode"
             /\ Pending(Head(update_queue).user) )
           => ( /\ conversations' = conversations
                /\ calls'[1].text = "prompt" ) )
      /\ ( ( /\ Dispatching
             /\ Head(update_queue).kind \in MediaKinds
             /\ current.handler = "handle_video"
             /\ current.user = Head(update_queue).user
             /\ calls # <<>>
             /\ calls[1] = Call("get_file", "", TRUE) )
           => current'.handler = "none" ) ]_vars

\* C9: while the job of one user is encoding, a begin command of another
\* user at the head of the queue can be handled at once.
C9_OtherUsersServedDuringEncode ==
  \A j \in DOMAIN jobs :
    ( /\ jobs[j].status = "encoding"
      /\ update_queue # <<>>
      /\ Head(update_queue).kind = "encode"
      /\ Head(update_queue).user # jobs[j].user )
    => ENABLED encode_command

\* C10: a cancel command, when it arrives and when it is handled, changes
\* no job and no file; and a job in flight can always take its next step,
\* whatever waits in the queue.
C10_CancelDoesNotAbort ==
  /\ [][ ( \/ ( /\ Dispatching
                /\ Head(update_queue).kind = "cancel" )
           \/ ( /\ Len(update_queue') = Len(update_queue) + 1
                /\ update_queue'[Len(update_queue')].kind = "cancel" ) )
         => ( jobs' = jobs /\ files' = files ) ]_vars
  /\ [](\A j \in DOMAIN jobs :
          InFlight(j) => ENABLED (download(j) \/ encode(j) \/ upload(j)))

\* The job of a user is uploading while a cancel of the same user waits.
C10_Witness ==
  \E j \in DOMAIN jobs :
    /\ jobs[j].status = "uploading"
    /\ update_queue # <<>>
    /\ Head(update_queue) = [user |-> jobs[j].user, kind |-> "cancel"]

\* ----------------------------------------------------- claims, continued
HasField(c, f) == f \in DOMAIN c

Is(c, op, text) == c.op = op /\ c.text = text

Raised(c) == HasField(c, "ok") /\ ~c.ok

\* Calls whose exception is caught by a try block of handle_video itself
\* (lines 110-112, 138-142, 178-193).
CaughtInside(c) ==
  \/ c.op \in {"download", "reply_document"}
  \/ c.text \in {"encoding_failed", "uploading", "done"}

AnyDispatch ==
  ignore_update \/ start \/ help_cmd \/ encode_command \/ cancel \/ handle_video

\* The job the latest update started, if it started one.
LatestJob == Len(jobs)

RECURSIVE IsPrefixOf(_, _)

\* a is the text b cut after some character (both in run form).
IsPrefixOf(a, b) ==
  \/ a = <<>>
  \/ /\ b # <<>>
     /\ a[1][1] = b[1][1]
     /\ \/ a[1][2] = b[1][2] /\ IsPrefixOf(Tail(a), Tail(b))
        \/ a[1][2] < b[1][2] /\ Len(a) = 1

Min(a, b) == IF a <= b THEN a ELSE b

\* C11: an exception that leaves the body of any callback is caught by the
\* wrapper: the generic error reply is attempted as the last call of that
\* handling, the callback has returned, and the dispatcher can take the
\* next update.
C11_ExceptionsCaught ==
  \A i \in DOMAIN calls :
    (Raised(calls[i]) /\ ~CaughtInside(calls[i]))
    => ( /\ i + 1 = Len(calls)
         /\ Is(calls[i + 1], "reply_text", "error_generic")
         /\ CanDispatch
         /\ (update_queue # <<>> => ENABLED AnyDispatch) )

\* The "Encoding started" edit raised inside handle_video, the wrapper
\* attempted its reply, and the next update is waiting.
C11_Witness ==
  /\ Len(calls) >= 2
  /\ Is(calls[Len(calls)], "reply_text", "error_generic")
  /\ Is(calls[Len(calls) - 1], "edit_text", "encoding_started")
  /\ current.handler = "handle_video"
  /\ update_queue # <<>>

DiagnosticOf(stderr, body) ==
  IF stderr = <<>>
    THEN body = NoErrorDetails
    ELSE /\ RunsLen(body) = Min(RunsLen(stderr), TruncLen)
         /\ IsPrefixOf(body, stderr)

NonZeroCommon(i) ==
  /\ i + 1 <= Len(calls)
  /\ Is(calls[i + 1], "edit_text", "encoding_failed")
  /\ \A k \in DOMAIN calls : calls[k].op # "reply_document"
  /\ jobs[LatestJob].status = "failed"
  /\ in_path(LatestJob) \notin files

C13_TimeoutIsJobFailure ==
  \A i \in DOMAIN calls :
    Is(calls[i], "subprocess.run", "timeout")
    => ( /\ Len(calls) = i + 1
         /\ Is(calls[i + 1], "edit_text", "timed_out")
         /\ jobs[LatestJob].status = "failed"
         /\ in_path(LatestJob) \notin files
         /\ ~Pending(jobs[LatestJob].user)
         /\ CanDispatch )

C13_Witness ==
  /\ Len(calls) >= 2
  /\ Is(calls[Len(calls) - 1], "subprocess.run", "timeout")
  /\ jobs[LatestJob].status = "failed"

\* C14: after the encoder returned zero without an output file, the only
\* call that follows is the edit reporting the missing output: no size is
\* read, nothing is uploaded, the job has failed and its input file is gone.
C14_MissingOutputStops ==
  \A i \in DOMAIN calls :
    (Is(calls[i], "subprocess.run", "zero") /\ ~calls[i].wrote)
    => ( /\ Len(calls) = i + 1
         /\ Is(calls[i + 1], "edit_text", "output_missing")
         /\ jobs[LatestJob].status = "failed"
         /\ in_path(LatestJob) \notin files )

C14_Witness ==
  /\ Len(calls) >= 2
  /\ Is(calls[Len(calls) - 1], "subprocess.run", "zero")
  /\ ~calls[Len(calls) - 1].wrote
  /\ jobs[LatestJob].status = "failed"

\* C15: once the size of the output has been read, the warning is shown
\* exactly when the size is above 49.5 MB and the "uploading" status exactly
\* when it is not, and the upload is attempted in both cases.
C15_UploadAttemptedForEverySize ==
  \A i \in DOMAIN calls :
    calls[i].op = "getsize"
    => ( /\ i + 1 <= Len(calls)
         /\ IF 2 * calls[i].size > 99 * MB
              THEN Is(calls[i + 1], "edit_text", "oversize_warning")
              ELSE Is(calls[i + 1], "edit_text", "uploading")
         /\ \/ jobs[LatestJob].status = "uploading"
            \/ \E k \in DOMAIN calls : k > i + 1 /\ calls[k].op = "reply_document" )

JobStep(a, b) ==
  \/ a = b
  \/ a = "downloading" /\ b \in {"encoding", "failed"}
  \/ a = "encoding" /\ b \in {"uploading", "failed"}
  \/ a = "uploading" /\ b \in {"done", "failed"}

\* C16: a job starts only for a user who is awaiting a file, moves only
\* downloading -> encoding -> uploading -> done, may fail from any of these,
\* and never leaves done or failed; the encoder runs only after a download
\* that succeeded, and the upload is attempted only after the encoder
\* returned zero and left an output file.
C16_JobStateMachine ==
  /\ [][ /\ DOMAIN jobs \subseteq DOMAIN jobs'
         /\ \A j \in DOMAIN jobs' :
              IF j \in DOMAIN jobs
                THEN /\ jobs'[j].user = jobs[j].user
                     /\ JobStep(jobs[j].status, jobs'[j].status)
                ELSE /\ Pending(jobs'[j].user)
                     /\ jobs'[j].status \in {"downloading", "failed"} ]_vars
  /\ [](\A i \in DOMAIN calls :
          /\ calls[i].op = "subprocess.run"
             => \E k \in 1..(i - 1) : calls[k] = Call("download", "", TRUE)
          /\ calls[i].op = "reply_document"
             => \E k \in 1..(i - 1) :
                  Is(calls[k], "subprocess.run", "zero") /\ calls[k].wrote)

\* One job is done and an earlier one has failed.
C16_Witness ==
  /\ LatestJob >= 2
  /\ jobs[LatestJob].status = "done"
  /\ jobs[1].status = "failed"

\* C17: the status 'Failed to upload encoded file' is shown only after the
\* call that uploads the document has itself failed.
C17_UploadFailureOnlyWhenUploadFailed ==
  \A i \in DOMAIN calls :
    Is(calls[i], "edit_text", "upload_failed")
    => \E k \in 1..(i - 1) : calls[k] = Call("reply_document", "encoded", FALSE)

\* C18: a message of a pending user that is neither video nor document
\* reaches no callback and changes nothing; the 'No video detected' reply is
\* never sent; and a video of a pending user at the head of the queue can
\* always be handled.
C18_TextKeepsRequest ==
  /\ [][ ( /\ Dispatching
           /\ Head(update_queue).kind = "text" )
         => ( /\ calls' = <<>>
              /\ current'.handler = "none"
              /\ conversations' = conversations
              /\ jobs' = jobs
              /\ files' = files ) ]_vars
  /\ [](\A i \in DOMAIN calls : calls[i].text # "no_video")
  /\ []( ( /\ CanDispatch
           /\ update_queue # <<>>
           /\ Head(update_queue).kind = "video"
           /\ Pending(Head(update_queue).user) )
         => ENABLED handle_video )

\* A text message of a pending user was dropped, the user is still pending
\* and the next update is a video of that user.
C18_Witness ==
  /\ current.kind = "text"
  /\ current.handler = "none"
  /\ Pending(current.user)
  /\ update_queue # <<>>
  /\ Head(update_queue) = [user |-> current.user, kind |-> "video"]

\* C19: /start and /help reach their own callbacks and leave the pending
\* set, every job and every file as they were.
C19_InfoCommandsChangeNothing ==
  [][ ( /\ Dispatching
        /\ Head(update_queue).kind \in {"start", "help"} )
      => ( /\ current'.handler \in {"start", "help_cmd"}
           /\ conversations' = conversations
           /\ jobs' = jobs
           /\ files' = files ) ]_vars

\* /start was answered for a user who is pending, with a file of an earlier
\* job still in the scratch directory.
C19_Witness ==
  /\ current.handler = "start"
  /\ Pending(current.user)
  /\ files # {}
====
